---- MODULE Spec2Model ----
(***************************************************************************)
(* Model of the zabbix trapper client of tycjlee/zabbix_agent:             *)
(* pkg.DataSender (one call: Config, dial, frame, write, deferred close,   *)
(* io.Copy until the peer closes, header check, payload slice) and the     *)
(* peer at the other end of the TCP connection.  Bytes are 0..255.         *)
(* Around it: main and activeCheck (MainSpec), a second concurrent call    *)
(* (TwoSpec), Logger.Output of pkg/MyLog.go under concurrent callers       *)
(* (LogSpec) and the channel benchmark of test/chanTest.go (BenchSpec).    *)
(***************************************************************************)
EXTENDS Integers, Sequences, FiniteSets, TLC

(* ------------------------------ bounds --------------------------------- *)

\* longest short request payload handed to DataSender
MaxData == 1
\* length of the one long request payload (its length needs two bytes)
LongLen == 258
\* longest payload the peer puts behind its 13 byte header
MaxPayload == 2

\* testFunction goroutines started by Producer (150000 in the benchmark)
NProd == 2
\* hand-overs on chSize followed
MaxSamples == 3

(* --------------------------- program constants -------------------------- *)

\* []byte("ZBXD\x01")
zbxHeader == <<90, 66, 88, 68, 1>>

\* zbxHeaderLength := len(zbxHeader)+8
zbxHeaderLength == Len(zbxHeader) + 8

(* ------------------------------ inputs ---------------------------------- *)

SeqsUpTo(S, n) == UNION {[1..k -> S] : k \in 0..n}

Prefixes(s) == {SubSeq(s, 1, k) : k \in 0..Len(s)}

DataBytes == {123}

LongData == [i \in 1..LongLen |-> i % 256]

DataSet == SeqsUpTo(DataBytes, MaxData) \cup {LongData}

(* ----------------------------- pure code -------------------------------- *)

\* v >> n on an unsigned value, one bit at a time
RECURSIVE ShiftRight(_, _)
ShiftRight(v, n) == IF n = 0 THEN v ELSE ShiftRight(v \div 2, n - 1)

\* big-endian variant (a wrong byte order)
PutUint64BE(v) == [i \in 1..8 |-> ShiftRight(v, 8 * (8 - i)) % 256]

\* binary.LittleEndian.PutUint64(byteBuff, v): b[i] = byte(v >> (8*i))
PutUint64(v) == [i \in 1..8 |-> ShiftRight(v, 8 * (i - 1)) % 256]

\* msgArray after the three appends
Frame(d) == zbxHeader \o PutUint64(Len(d)) \o d

\* buf.Bytes()[:5]: a slice expression may run up to the capacity of the
\* slice, not its length.  Buffer.ReadFrom grows the buffer by bytes.MinRead
\* (512) before its first Read, so the capacity is at least 5 even when
\* nothing arrived, and the spare capacity of the fresh array is zero
Bytes5(b) == [i \in 1..5 |-> IF i <= Len(b) THEN b[i] ELSE 0]

\* a header test that forgets the version byte
HeaderOK4(b) == SubSeq(Bytes5(b), 1, 4) = SubSeq(zbxHeader, 1, 4)

\* string(buf.Bytes()[:5]) == "ZBXD\x01"
HeaderOK(b) == Bytes5(b) = zbxHeader

\* value of the 8 byte little-endian field at offsets 5..12
RECURSIVE LEValue(_)
LEValue(bs) == IF bs = <<>> THEN 0 ELSE bs[1] + 256 * LEValue(Tail(bs))

Min(a, b) == IF a < b THEN a ELSE b

\* a payload cut to the declared length (a length-bounded read)
PayloadBounded(b) ==
    SubSeq(b, 14, 13 + Min(LEValue(SubSeq(b, 6, 13)), Len(b) - 13))

\* string(buf.Bytes())[13:], defined for len >= 13
Payload(b) == SubSeq(b, 14, Len(b))

\* string(buf.Bytes())[13:] panics when the string is shorter than 13
SliceFaults(b) == Len(b) < zbxHeaderLength

(* ------------------------------ the peer -------------------------------- *)

BadHeaders == {<<90, 66, 88, 68, 2>>, <<122, 66, 88, 68, 1>>}

DeclaredLens == {1, 260}

PayloadBytes == {123, 125}

FullResp ==
    {h \o PutUint64(n) \o p :
        h \in {zbxHeader} \cup BadHeaders,
        n \in DeclaredLens,
        p \in SeqsUpTo(PayloadBytes, MaxPayload)}

\* everything the peer may send before it closes: whole envelopes and
\* every truncation of one, the empty response included
RespSet == UNION {Prefixes(r) : r \in FullResp}


(* ------------------------------ the Logger ------------------------------ *)

\* const ( Ldate = 1 << iota ... )
Ldate == 1
Ltime == 2
Lmicroseconds == 4
Llongfile == 8
Lshortfile == 16
LUTC == 32
Ldebug == 64
Linfo == 128
Lwarn == 256
Lerror == 512
Lpanic == 1024
Ltrace == 2048
LstdFlags == 11

\* a & b on non-negative ints
RECURSIVE BitAnd(_, _)
BitAnd(a, b) ==
    IF a = 0 \/ b = 0 THEN 0
    ELSE (a % 2) * (b % 2) + 2 * BitAnd(a \div 2, b \div 2)

\* a filter that also drops the messages of the threshold level itself
SuppressedLE(flag, level) ==
    /\ BitAnd(flag, Ldebug + Linfo + Lwarn + Lerror + Lpanic + Ltrace) # 0
    /\ IF BitAnd(flag, Linfo) # 0 /\ level <= Linfo THEN TRUE
       ELSE IF BitAnd(flag, Lwarn) # 0 /\ level <= Lwarn THEN TRUE
       ELSE IF BitAnd(flag, Lerror) # 0 /\ level <= Lerror THEN TRUE
       ELSE IF BitAnd(flag, Lpanic) # 0 /\ level <= Lpanic THEN TRUE
       ELSE IF BitAnd(flag, Ltrace) # 0 /\ level <= Ltrace THEN TRUE
       ELSE FALSE

\* the level filter at the head of Output: TRUE when it returns nil
Suppressed(flag, level) ==
    /\ BitAnd(flag, Ldebug + Linfo + Lwarn + Lerror + Lpanic + Ltrace) # 0
    /\ IF BitAnd(flag, Linfo) # 0 /\ level < Linfo THEN TRUE
       ELSE IF BitAnd(flag, Lwarn) # 0 /\ level < Lwarn THEN TRUE
       ELSE IF BitAnd(flag, Lerror) # 0 /\ level < Lerror THEN TRUE
       ELSE IF BitAnd(flag, Lpanic) # 0 /\ level < Lpanic THEN TRUE
       ELSE IF BitAnd(flag, Ltrace) # 0 /\ level < Ltrace THEN TRUE
       ELSE FALSE

\* l.flag&(Lshortfile|Llongfile) != 0
WantsFile(flag) == BitAnd(flag, Lshortfile + Llongfile) # 0

\* the switch on level in formatHeader
LevelTag(level) ==
    IF level = Ldebug THEN " DEBUG "
    ELSE IF level = Linfo THEN " INFO "
    ELSE IF level = Lwarn THEN " WARN "
    ELSE IF level = Lerror THEN " ERROR "
    ELSE IF level = Lpanic THEN " PANIC "
    ELSE IF level = Ltrace THEN " TRACE "
    ELSE " UNKNOWN "

\* a piece of a log line: what it is and whose it is
Tok(what, whose) == <<what, whose>>

\* Logger.prefix
prefix == <<Tok("prefix", 0)>>

\* formatHeader: prefix, date and time, level tag, file and line
formatHeader(flag, file, level) ==
    prefix
    \o (IF BitAnd(flag, Ldate + Ltime + Lmicroseconds) # 0
        THEN (IF BitAnd(flag, Ldate) # 0 THEN <<Tok("date", 0)>> ELSE <<>>)
             \o (IF BitAnd(flag, Ltime + Lmicroseconds) # 0
                 THEN <<Tok("time", 0)>>
                      \o (IF BitAnd(flag, Lmicroseconds) # 0
                          THEN <<Tok("micros", 0)>> ELSE <<>>)
                 ELSE <<>>)
        ELSE <<>>)
    \o (IF BitAnd(flag, Ldebug + Linfo + Lwarn + Lerror + Lpanic) # 0
        THEN <<Tok(LevelTag(level), 0)>> ELSE <<>>)
    \o (IF WantsFile(flag)
        THEN <<Tok(IF BitAnd(flag, Lshortfile) # 0
                   THEN "shortfile" ELSE "file", file),
               Tok(":line: ", file)>>
        ELSE <<>>)

\* the goroutines that log
LogProcs == {1, 2}

\* the exported calls, by the level they hand to Output
LevelOf(kind) ==
    CASE kind = "Debug" -> Ldebug
      [] kind = "Info" -> Linfo
      [] kind = "Warn" -> Lwarn
      [] kind = "Error" -> Lerror
      [] kind = "Fatal" -> Lerror
      [] kind = "Panic" -> Lpanic
      [] kind = "Trace" -> Ltrace

Kinds == {"Debug", "Info", "Warn", "Error", "Fatal", "Panic", "Trace"}

\* the text a goroutine logs: with and without a final newline
Text(g) ==
    IF g % 2 = 1 THEN <<Tok("msg", g)>> ELSE <<Tok("msg", g), Tok("\n", 0)>>

\* file and line as runtime.Caller reports them for goroutine g; 0 stands
\* for the initial "", 0
CallerFile(g) == g

\* the flag words tried: every choice of level bits, with and without the
\* file bits, and the flags of the standard logger
LevelBits == {Ldebug, Linfo, Lwarn, Lerror, Lpanic, Ltrace}

RECURSIVE SumOf(_)
SumOf(S) == IF S = {} THEN 0
            ELSE LET x == CHOOSE y \in S : TRUE IN x + SumOf(S \ {x})

FlagSet ==
    {SumOf(B) + f : B \in SUBSET LevelBits, f \in {0, Llongfile, Lshortfile}}
        \cup {LstdFlags}

NewLog(k) == [pc |-> "call", kind |-> k, file |-> 0,
              wrote |-> FALSE, ret |-> "none"]

(* ------------------------------- state ---------------------------------- *)

VARIABLES
    pc,         \* position of the DataSender call
    data,       \* argument data
    conn,       \* the connection: "none", "open", "closed"
    err,        \* local variable err
    msgArray,   \* the frame built from data
    wire,       \* what conn.Write put on the connection
    deferred,   \* the deferred close is registered
    buf,        \* bytes.Buffer filled by io.Copy
    res,        \* returned string
    retErr,     \* returned error
    steps,      \* the I/O calls made so far, in order
    resp,       \* what the peer sends before closing
    peerSent,   \* number of bytes of resp sent so far
    peer,       \* peer side of the stream: "open", "closed", "error"
    cfgFile,    \* the configuration file: "good" or "bad" (unreadable)
    mainPc,     \* position of main
    acPc,       \* position of the activeCheck goroutine
    jsonErr,    \* err of json.Marshal in activeCheck
    chCount,    \* values handed over on ch so far
    mainRes,    \* res in main, received from ch
    printed,    \* what main has printed
    other,      \* a second DataSender call and its peer, as one record
    lflag,      \* Logger.flag
    mu,         \* Logger.mu: 0 when free, else the goroutine holding it
    lbuf,       \* Logger.buf
    out,        \* what Logger.out has been given, one entry per Write
    lcall,      \* per goroutine: its logging call and the position in it
    exited,     \* os.Exit(1) has been called
    prod,       \* channel benchmark: position of each testFunction goroutine
    consPc,     \* position of the Consumer goroutine
    consStr,    \* str in the Consumer goroutine (the number it carries)
    sampPc,     \* position of the GetChanSize goroutine
    sampVal,    \* the len(ch) that goroutine is about to send
    cmPc,       \* position of the benchmark's main
    spawned,    \* i in Producer
    size,       \* size in PrintChanSize, -1 before it is received
    shown,      \* the size printed last, -1 before the first print
    samples     \* values handed over on chSize so far

peerVars == <<resp, peerSent, peer>>

\* the goroutines around the call: main and activeCheck
orchVars == <<mainPc, acPc, jsonErr, chCount, mainRes, printed>>

\* what lives apart from the program around the first call
logVars == <<lflag, mu, lbuf, out, lcall, exited>>

chanVars == <<prod, consPc, consStr, sampPc, sampVal, cmPc, spawned, size,
              shown, samples>>

apartVars == <<other, logVars, chanVars>>

\* everything no step of the call and no step of its peer touches
restVars == <<cfgFile, orchVars, apartVars>>

vars == <<pc, data, conn, err, msgArray, wire, deferred, buf, res, retErr,
          steps, resp, peerSent, peer, restVars>>

\* nobody logs
NoLogging ==
    /\ lflag = 0
    /\ mu = 0
    /\ lbuf = <<>>
    /\ out = <<>>
    /\ lcall = [g \in LogProcs |-> [NewLog("Info") EXCEPT !.pc = "none"]]
    /\ exited = FALSE

\* the channel benchmark before its main runs
NoBench ==
    /\ prod = [i \in 1..NProd |-> "none"]
    /\ consPc = "none"
    /\ consStr = 0
    /\ sampPc = "none"
    /\ sampVal = 0
    /\ cmPc = "Producer"
    /\ spawned = 0
    /\ size = -1
    /\ shown = -1
    /\ samples = 0

NoRes == [tag |-> "None", bytes |-> <<>>]

Msg(t) == [tag |-> t, bytes |-> <<>>]

\* the state of one DataSender call with its environment, before Config()
NewCall(d, r, c) ==
    [pc |-> "Idle", data |-> d, conn |-> "none", err |-> "nil",
     msgArray |-> <<>>, wire |-> <<>>, deferred |-> FALSE, buf |-> <<>>,
     res |-> NoRes, retErr |-> "nil", steps |-> <<>>,
     resp |-> r, peerSent |-> 0, peer |-> "open", cfgFile |-> c]

\* no second call is made
NoCall == [NewCall(<<>>, <<>>, "good") EXCEPT !.pc = "None"]

Init ==
    /\ pc = "Idle"
    /\ data \in DataSet
    /\ conn = "none"
    /\ err = "nil"
    /\ msgArray = <<>>
    /\ wire = <<>>
    /\ deferred = FALSE
    /\ buf = <<>>
    /\ res = NoRes
    /\ retErr = "nil"
    /\ steps = <<>>
    /\ resp \in RespSet
    /\ peerSent = 0
    /\ peer = "open"
    /\ cfgFile \in {"good", "bad"}
    \* the caller is inside res,err := pkg.DataSender(data2)
    /\ mainPc = "recv"
    /\ acPc = "calling"
    /\ jsonErr = "nil"
    /\ chCount = 0
    /\ mainRes = NoRes
    /\ printed = <<>>
    /\ other = NoCall
    /\ NoLogging
    /\ NoBench

(* --------------------------- leaving the call --------------------------- *)

\* the deferred func: err = conn.Close(); it runs on return and on panic,
\* after the results are fixed (err is not a named result)
RunDeferred(e) ==
    IF deferred
    THEN \E closeRes \in {"nil", "closeErr"} :
            /\ conn' = "closed"
            /\ err' = closeRes
            /\ steps' = Append(steps, "close")
    ELSE /\ conn' = conn
         /\ err' = e
         /\ steps' = steps

\* a return whose error result is named err, so that the deferred close
\* overwrites it
ReturnNamed(r, e) ==
    /\ pc' = "Returned"
    /\ res' = r
    /\ IF deferred
       THEN \E closeRes \in {"nil", "closeErr"} :
                /\ conn' = "closed"
                /\ err' = closeRes
                /\ retErr' = closeRes
                /\ steps' = Append(steps, "close")
       ELSE /\ conn' = conn
            /\ err' = e
            /\ retErr' = e
            /\ steps' = steps

\* return r, e
Return(r, e) ==
    /\ pc' = "Returned"
    /\ res' = r
    /\ retErr' = e
    /\ RunDeferred(e)

(* ------------------------------ DataSender ------------------------------ *)

\* conf := Config() returns
ConfigOK ==
    /\ acPc = "calling"
    /\ pc = "Idle"
    /\ cfgFile = "good"
    /\ pc' = "Connecting"
    /\ UNCHANGED <<data, conn, err, msgArray, wire, deferred, buf, res,
                   retErr, steps, peerVars, restVars>>

\* a Config() that logs the error and returns what it has
ConfigLogOnly ==
    /\ acPc = "calling"
    /\ pc = "Idle"
    /\ cfgFile = "bad"
    /\ pc' = "Connecting"
    /\ UNCHANGED <<data, conn, err, msgArray, wire, deferred, buf, res,
                   retErr, steps, peerVars, restVars>>

\* conf := Config() fails: toml.DecodeFile returns an error, log.Panic(err)
ConfigPanic ==
    /\ acPc = "calling"
    /\ pc = "Idle"
    /\ cfgFile = "bad"
    /\ pc' = "Panicked"
    /\ UNCHANGED <<data, conn, err, msgArray, wire, deferred, buf, res,
                   retErr, steps, peerVars, restVars>>

\* conn,err := net.Dial("tcp",address) succeeds
DialOK ==
    /\ pc = "Connecting"
    /\ pc' = "Connected"
    /\ conn' = "open"
    /\ err' = "nil"
    /\ steps' = Append(steps, "dial")
    /\ UNCHANGED <<data, msgArray, wire, deferred, buf, res, retErr,
                   peerVars, restVars>>

\* a dial failure that tries again
DialFailRetry ==
    /\ pc = "Connecting"
    /\ Len(steps) < 2
    /\ pc' = "Connecting"
    /\ err' = "dialErr"
    /\ steps' = Append(steps, "dial")
    /\ UNCHANGED <<data, conn, msgArray, wire, deferred, buf, res, retErr,
                   peerVars, restVars>>

\* net.Dial fails: return "connect error:",err
DialFail ==
    /\ pc = "Connecting"
    /\ pc' = "Returned"
    /\ res' = Msg("ConnectError")
    /\ retErr' = "dialErr"
    /\ err' = "dialErr"
    /\ steps' = Append(steps, "dial")
    /\ UNCHANGED <<data, conn, msgArray, wire, deferred, buf, peerVars, restVars>>

\* msgArray := header, 8 byte little-endian length, data
BuildFrame ==
    /\ pc = "Connected"
    /\ msgArray' = Frame(data)
    /\ pc' = "Writing"
    /\ UNCHANGED <<data, conn, err, wire, deferred, buf, res, retErr, steps,
                   peerVars, restVars>>

\* _,err = conn.Write(msgArray) succeeds
WriteOK ==
    /\ pc = "Writing"
    /\ wire' = msgArray
    /\ err' = "nil"
    /\ steps' = Append(steps, "write")
    /\ pc' = "Deferring"
    /\ UNCHANGED <<data, conn, msgArray, deferred, buf, res, retErr,
                   peerVars, restVars>>

\* a write failure that is only logged
WriteFailContinue ==
    /\ pc = "Writing"
    /\ err' = "writeErr"
    /\ steps' = Append(steps, "writeFail")
    /\ pc' = "Deferring"
    /\ UNCHANGED <<data, conn, msgArray, wire, deferred, buf, res, retErr,
                   peerVars, restVars>>

\* conn.Write fails: return "send data error:",err (no defer registered yet)
WriteFail ==
    /\ pc = "Writing"
    /\ pc' = "Returned"
    /\ res' = Msg("SendFailed")
    /\ retErr' = "writeErr"
    /\ err' = "writeErr"
    /\ steps' = Append(steps, "writeFail")
    /\ UNCHANGED <<data, conn, msgArray, wire, deferred, buf, peerVars, restVars>>

\* defer func(){ err = conn.Close() ... }()
RegisterDefer ==
    /\ pc = "Deferring"
    /\ deferred' = TRUE
    /\ pc' = "Copying"
    /\ UNCHANGED <<data, conn, err, msgArray, wire, buf, res, retErr, steps,
                   peerVars, restVars>>

\* var buf bytes.Buffer; io.Copy(&buf,conn) is entered
CopyStart ==
    /\ pc = "Copying"
    /\ buf' = <<>>
    /\ steps' = Append(steps, "read")
    /\ pc' = "Reading"
    /\ UNCHANGED <<data, conn, err, msgArray, wire, deferred, res, retErr,
                   peerVars, restVars>>

\* one Read inside io.Copy delivers the bytes that have arrived
CopyRead ==
    /\ pc = "Reading"
    /\ Len(buf) < peerSent
    /\ buf' = SubSeq(resp, 1, peerSent)
    /\ UNCHANGED <<pc, data, conn, err, msgArray, wire, deferred, res,
                   retErr, steps, peerVars, restVars>>

\* Read returns io.EOF: io.Copy returns a nil error
CopyEOF ==
    /\ pc = "Reading"
    /\ peer = "closed"
    /\ Len(buf) = peerSent
    /\ err' = "nil"
    /\ pc' = "Validating"
    /\ UNCHANGED <<data, conn, msgArray, wire, deferred, buf, res, retErr,
                   steps, peerVars, restVars>>

\* a read that gives up although the peer is still there (a deadline)
CopyErrTimeout ==
    /\ pc = "Reading"
    /\ Return(Msg("RecvFailed"), "readErr")
    /\ UNCHANGED <<data, msgArray, wire, deferred, buf, peerVars, restVars>>

\* Read returns another error: return "error data",err
CopyErr ==
    /\ pc = "Reading"
    /\ peer = "error"
    /\ Return(Msg("RecvFailed"), "readErr")
    /\ UNCHANGED <<data, msgArray, wire, deferred, buf, peerVars, restVars>>

\* a header failure that hands the response read so far back
InvalidHeaderRaw ==
    /\ pc = "Validating"
    /\ ~HeaderOK(buf)
    /\ Return([tag |-> "Raw", bytes |-> buf], err)
    /\ UNCHANGED <<data, msgArray, wire, deferred, buf, peerVars, restVars>>

\* the header differs: return "zabbix server:Invalid data header",err
InvalidHeader ==
    /\ pc = "Validating"
    /\ ~HeaderOK(buf)
    /\ Return(Msg("InvalidHeader"), err)
    /\ UNCHANGED <<data, msgArray, wire, deferred, buf, peerVars, restVars>>

\* return string(buf.Bytes())[13:],nil
ReturnPayload ==
    /\ pc = "Validating"
    /\ HeaderOK(buf)
    /\ ~SliceFaults(buf)
    /\ Return([tag |-> "Payload", bytes |-> Payload(buf)], "nil")
    /\ UNCHANGED <<data, msgArray, wire, deferred, buf, peerVars, restVars>>

\* string(buf.Bytes())[13:] on fewer than 13 bytes: slice bounds out of
\* range; the deferred close runs while the panic unwinds
SlicePanic ==
    /\ pc = "Validating"
    /\ HeaderOK(buf)
    /\ SliceFaults(buf)
    /\ pc' = "Panicked"
    /\ RunDeferred(err)
    /\ UNCHANGED <<data, msgArray, wire, deferred, buf, res, retErr,
                   peerVars, restVars>>

(* ------------------------------- the peer ------------------------------- *)

\* the peer sends some more of its response; it arrives in at most two
\* segments, cut anywhere
PeerSend ==
    /\ conn = "open"
    /\ peer = "open"
    /\ \E n \in (peerSent + 1)..Len(resp) :
            /\ peerSent = 0 \/ n = Len(resp)
            /\ peerSent' = n
    /\ UNCHANGED <<pc, data, conn, err, msgArray, wire, deferred, buf, res,
                   retErr, steps, resp, peer, restVars>>

\* the peer has sent its response and closes the stream
PeerClose ==
    /\ conn = "open"
    /\ peer = "open"
    /\ peerSent = Len(resp)
    /\ peer' = "closed"
    /\ UNCHANGED <<pc, data, conn, err, msgArray, wire, deferred, buf, res,
                   retErr, steps, resp, peerSent, restVars>>

\* the stream breaks (reset)
PeerError ==
    /\ conn = "open"
    /\ peer = "open"
    /\ peer' = "error"
    /\ UNCHANGED <<pc, data, conn, err, msgArray, wire, deferred, buf, res,
                   retErr, steps, resp, peerSent, restVars>>

(* ------------------------- main and activeCheck ------------------------- *)

callVars == <<pc, conn, err, msgArray, wire, deferred, buf, res, retErr,
              steps>>

\* the program before main runs: nothing marshalled, nothing called
MainInit ==
    /\ pc = "Idle"
    /\ data = <<>>
    /\ conn = "none"
    /\ err = "nil"
    /\ msgArray = <<>>
    /\ wire = <<>>
    /\ deferred = FALSE
    /\ buf = <<>>
    /\ res = NoRes
    /\ retErr = "nil"
    /\ steps = <<>>
    /\ resp \in RespSet
    /\ peerSent = 0
    /\ peer = "open"
    /\ cfgFile \in {"good", "bad"}
    /\ mainPc = "start"
    /\ acPc = "none"
    /\ jsonErr = "nil"
    /\ chCount = 0
    /\ mainRes = NoRes
    /\ printed = <<>>
    /\ other = NoCall
    /\ NoLogging
    /\ NoBench

\* main: go activeCheck()
MainGo ==
    /\ mainPc = "start"
    /\ mainPc' = "recv"
    /\ acPc' = "marshal"
    /\ UNCHANGED <<callVars, data, peerVars, cfgFile, jsonErr, chCount,
                   mainRes, printed,
                   apartVars>>

\* jsonBytes,err := json.Marshal(data) succeeds; data2 holds the same bytes
\* (string(jsonBytes) and []byte(jsonString) keep every byte); a JSON
\* document is never empty
MarshalOK ==
    /\ acPc = "marshal"
    /\ \E jsonBytes \in DataSet \ {<<>>} : data' = jsonBytes
    /\ jsonErr' = "nil"
    /\ acPc' = "calling"
    /\ UNCHANGED <<callVars, peerVars, cfgFile, mainPc, chCount, mainRes,
                   printed,
                   apartVars>>

\* json.Marshal fails: jsonBytes is nil, the error is logged and printed,
\* and activeCheck goes on with data2 = []byte("")
MarshalFail ==
    /\ acPc = "marshal"
    /\ data' = <<>>
    /\ jsonErr' = "marshalErr"
    /\ acPc' = "calling"
    /\ UNCHANGED <<callVars, peerVars, cfgFile, mainPc, chCount, mainRes,
                   printed,
                   apartVars>>

\* an activeCheck that gives up when DataSender reports an error
AcReturnEarly ==
    /\ acPc = "calling"
    /\ pc = "Returned"
    /\ acPc' = IF retErr # "nil" THEN "done" ELSE "send"
    /\ UNCHANGED <<callVars, data, peerVars, cfgFile, mainPc, jsonErr,
                   chCount, mainRes, printed,
                   apartVars>>

\* res,err := pkg.DataSender(data2) has returned; an error is printed and
\* activeCheck goes on to ch <- res
AcReturn ==
    /\ acPc = "calling"
    /\ pc = "Returned"
    /\ acPc' = "send"
    /\ UNCHANGED <<callVars, data, peerVars, cfgFile, mainPc, jsonErr,
                   chCount, mainRes, printed,
                   apartVars>>

\* ch is unbuffered: ch <- res in activeCheck and res := <-ch in main
\* happen together
ChHandoff ==
    /\ acPc = "send"
    /\ mainPc = "recv"
    /\ mainRes' = res
    /\ chCount' = chCount + 1
    /\ acPc' = "done"
    /\ mainPc' = "print"
    /\ UNCHANGED <<callVars, data, peerVars, cfgFile, jsonErr, printed,
                   apartVars>>

\* fmt.Println(res); main returns
MainPrint ==
    /\ mainPc = "print"
    /\ printed' = Append(printed, mainRes)
    /\ mainPc' = "done"
    /\ UNCHANGED <<callVars, data, peerVars, cfgFile, acPc, jsonErr,
                   chCount, mainRes,
                   apartVars>>

\* a panic nobody recovers ends the whole program
Crash ==
    /\ acPc = "calling"
    /\ pc = "Panicked"
    /\ acPc' = "crashed"
    /\ mainPc' = "crashed"
    /\ UNCHANGED <<callVars, data, peerVars, cfgFile, jsonErr, chCount,
                   mainRes, printed,
                   apartVars>>

Orch ==
    \/ MainGo
    \/ MarshalOK
    \/ MarshalFail
    \/ AcReturn
    \/ ChHandoff
    \/ MainPrint
    \/ Crash

(* --------------------- a second, concurrent call ------------------------ *)

\* what the second call and its peer never touch
firstVars == <<callVars, data, peerVars, cfgFile, orchVars>>

outsideOther == <<firstVars, logVars, chanVars>>

\* leaving the second call: the results are set, then the deferred close runs
Leave2(o, newpc, r, e, closeRes) ==
    IF o.deferred
    THEN [o EXCEPT !.pc = newpc, !.res = r, !.retErr = e,
                   !.conn = "closed", !.err = closeRes,
                   !.steps = Append(@, "close")]
    ELSE [o EXCEPT !.pc = newpc, !.res = r, !.retErr = e, !.err = e]

Config2OK ==
    /\ other.pc = "Idle"
    /\ other.cfgFile = "good"
    /\ other' = [other EXCEPT !.pc = "Connecting"]
    /\ UNCHANGED outsideOther

Config2Panic ==
    /\ other.pc = "Idle"
    /\ other.cfgFile = "bad"
    /\ other' = [other EXCEPT !.pc = "Panicked"]
    /\ UNCHANGED outsideOther

Dial2OK ==
    /\ other.pc = "Connecting"
    /\ other' = [other EXCEPT !.pc = "Connected", !.conn = "open",
                              !.err = "nil", !.steps = Append(@, "dial")]
    /\ UNCHANGED outsideOther

Dial2Fail ==
    /\ other.pc = "Connecting"
    /\ other' = [other EXCEPT !.pc = "Returned",
                              !.res = Msg("ConnectError"),
                              !.retErr = "dialErr", !.err = "dialErr",
                              !.steps = Append(@, "dial")]
    /\ UNCHANGED outsideOther

BuildFrame2 ==
    /\ other.pc = "Connected"
    /\ other' = [other EXCEPT !.pc = "Writing",
                              !.msgArray = Frame(other.data)]
    /\ UNCHANGED outsideOther

Write2OK ==
    /\ other.pc = "Writing"
    /\ other' = [other EXCEPT !.pc = "Deferring", !.wire = other.msgArray,
                              !.err = "nil", !.steps = Append(@, "write")]
    /\ UNCHANGED outsideOther

Write2Fail ==
    /\ other.pc = "Writing"
    /\ other' = [other EXCEPT !.pc = "Returned", !.res = Msg("SendFailed"),
                              !.retErr = "writeErr", !.err = "writeErr",
                              !.steps = Append(@, "writeFail")]
    /\ UNCHANGED outsideOther

RegisterDefer2 ==
    /\ other.pc = "Deferring"
    /\ other' = [other EXCEPT !.pc = "Copying", !.deferred = TRUE]
    /\ UNCHANGED outsideOther

CopyStart2 ==
    /\ other.pc = "Copying"
    /\ other' = [other EXCEPT !.pc = "Reading", !.buf = <<>>,
                              !.steps = Append(@, "read")]
    /\ UNCHANGED outsideOther

\* a read into a buffer both calls use (a package-level bytes.Buffer)
CopyRead2Shared ==
    /\ other.pc = "Reading"
    /\ Len(other.buf) < other.peerSent
    /\ other' = [other EXCEPT
                    !.buf = buf \o SubSeq(other.resp, 1, other.peerSent)]
    /\ UNCHANGED outsideOther

CopyRead2 ==
    /\ other.pc = "Reading"
    /\ Len(other.buf) < other.peerSent
    /\ other' = [other EXCEPT !.buf = SubSeq(other.resp, 1, other.peerSent)]
    /\ UNCHANGED outsideOther

CopyEOF2 ==
    /\ other.pc = "Reading"
    /\ other.peer = "closed"
    /\ Len(other.buf) = other.peerSent
    /\ other' = [other EXCEPT !.pc = "Validating", !.err = "nil"]
    /\ UNCHANGED outsideOther

CopyErr2 ==
    /\ other.pc = "Reading"
    /\ other.peer = "error"
    /\ \E closeRes \in {"nil", "closeErr"} :
            other' = Leave2(other, "Returned", Msg("RecvFailed"), "readErr",
                            closeRes)
    /\ UNCHANGED outsideOther

InvalidHeader2 ==
    /\ other.pc = "Validating"
    /\ ~HeaderOK(other.buf)
    /\ \E closeRes \in {"nil", "closeErr"} :
            other' = Leave2(other, "Returned", Msg("InvalidHeader"),
                            other.err, closeRes)
    /\ UNCHANGED outsideOther

ReturnPayload2 ==
    /\ other.pc = "Validating"
    /\ HeaderOK(other.buf)
    /\ ~SliceFaults(other.buf)
    /\ \E closeRes \in {"nil", "closeErr"} :
            other' = Leave2(other, "Returned",
                            [tag |-> "Payload", bytes |-> Payload(other.buf)],
                            "nil", closeRes)
    /\ UNCHANGED outsideOther

SlicePanic2 ==
    /\ other.pc = "Validating"
    /\ HeaderOK(other.buf)
    /\ SliceFaults(other.buf)
    /\ \E closeRes \in {"nil", "closeErr"} :
            other' = Leave2(other, "Panicked", other.res, other.retErr,
                            closeRes)
    /\ UNCHANGED outsideOther

Peer2Send ==
    /\ other.conn = "open"
    /\ other.peer = "open"
    /\ \E n \in (other.peerSent + 1)..Len(other.resp) :
            /\ other.peerSent = 0 \/ n = Len(other.resp)
            /\ other' = [other EXCEPT !.peerSent = n]
    /\ UNCHANGED outsideOther

Peer2Close ==
    /\ other.conn = "open"
    /\ other.peer = "open"
    /\ other.peerSent = Len(other.resp)
    /\ other' = [other EXCEPT !.peer = "closed"]
    /\ UNCHANGED outsideOther

Peer2Error ==
    /\ other.conn = "open"
    /\ other.peer = "open"
    /\ other' = [other EXCEPT !.peer = "error"]
    /\ UNCHANGED outsideOther

Call2 ==
    \/ Config2OK
    \/ Config2Panic
    \/ Dial2OK
    \/ Dial2Fail
    \/ BuildFrame2
    \/ Write2OK
    \/ Write2Fail
    \/ RegisterDefer2
    \/ CopyStart2
    \/ CopyRead2
    \/ CopyEOF2
    \/ CopyErr2
    \/ InvalidHeader2
    \/ ReturnPayload2
    \/ SlicePanic2

Peer2 ==
    \/ Peer2Send
    \/ Peer2Close
    \/ Peer2Error

\* payloads and responses of the two concurrent calls
FirstData == <<123>>

OtherData == <<34, 34>>

TwoResp == {<<90, 66>>, zbxHeader, zbxHeader \o PutUint64(1) \o <<125>>}

\* two goroutines, each inside DataSender
TwoInit ==
    /\ pc = "Idle"
    /\ data = FirstData
    /\ conn = "none"
    /\ err = "nil"
    /\ msgArray = <<>>
    /\ wire = <<>>
    /\ deferred = FALSE
    /\ buf = <<>>
    /\ res = NoRes
    /\ retErr = "nil"
    /\ steps = <<>>
    /\ resp \in TwoResp
    /\ peerSent = 0
    /\ peer = "open"
    /\ cfgFile \in {"good", "bad"}
    /\ mainPc = "recv"
    /\ acPc = "calling"
    /\ jsonErr = "nil"
    /\ chCount = 0
    /\ mainRes = NoRes
    /\ printed = <<>>
    /\ other \in {NewCall(OtherData, r, c) :
                    r \in TwoResp, c \in {"good", "bad"}}
    /\ NoLogging
    /\ NoBench

(* ----------------------- Logger.Output and callers --------------------- *)

outsideLog == <<firstVars, other, chanVars>>

\* two goroutines about to log through one Logger
LogInit ==
    /\ pc = "Idle"
    /\ data = <<>>
    /\ conn = "none"
    /\ err = "nil"
    /\ msgArray = <<>>
    /\ wire = <<>>
    /\ deferred = FALSE
    /\ buf = <<>>
    /\ res = NoRes
    /\ retErr = "nil"
    /\ steps = <<>>
    /\ resp = <<>>
    /\ peerSent = 0
    /\ peer = "open"
    /\ cfgFile = "good"
    /\ mainPc = "start"
    /\ acPc = "none"
    /\ jsonErr = "nil"
    /\ chCount = 0
    /\ mainRes = NoRes
    /\ printed = <<>>
    /\ other = NoCall
    /\ lflag \in FlagSet
    /\ mu = 0
    /\ lbuf = <<>>
    /\ out = <<>>
    /\ lcall \in {[g \in LogProcs |-> NewLog(IF g = 1 THEN k1 ELSE k2)] :
                    k1 \in Kinds, k2 \in {"Warn", "Fatal"}}
    /\ exited = FALSE
    /\ NoBench

Level(g) == LevelOf(lcall[g].kind)

\* l.mu.Lock(); defer l.mu.Unlock()
LogLock(g) ==
    /\ ~exited
    /\ lcall[g].pc = "call"
    /\ mu = 0
    /\ mu' = g
    /\ lcall' = [lcall EXCEPT ![g].pc = "filter"]
    /\ UNCHANGED <<lflag, lbuf, out, exited, outsideLog>>

\* the level filter returns nil; the deferred Unlock runs
FilterDrop(g) ==
    /\ ~exited
    /\ lcall[g].pc = "filter"
    /\ Suppressed(lflag, Level(g))
    /\ mu' = 0
    /\ lcall' = [lcall EXCEPT ![g].pc = "after", ![g].ret = "nil"]
    /\ UNCHANGED <<lflag, lbuf, out, exited, outsideLog>>

\* the message passes and caller information is wanted: l.mu.Unlock()
FilterUnlock(g) ==
    /\ ~exited
    /\ lcall[g].pc = "filter"
    /\ ~Suppressed(lflag, Level(g))
    /\ WantsFile(lflag)
    /\ mu' = 0
    /\ lcall' = [lcall EXCEPT ![g].pc = "caller"]
    /\ UNCHANGED <<lflag, lbuf, out, exited, outsideLog>>

\* the message passes and no caller information is wanted
FilterPass(g) ==
    /\ ~exited
    /\ lcall[g].pc = "filter"
    /\ ~Suppressed(lflag, Level(g))
    /\ ~WantsFile(lflag)
    /\ lcall' = [lcall EXCEPT ![g].pc = "reset"]
    /\ UNCHANGED <<lflag, mu, lbuf, out, exited, outsideLog>>

\* _, file, line, ok = runtime.Caller(calldepth), outside the lock
Caller(g) ==
    /\ ~exited
    /\ lcall[g].pc = "caller"
    /\ \E ok \in BOOLEAN :
            lcall' = [lcall EXCEPT ![g].pc = "relock",
                        ![g].file = IF ok THEN CallerFile(g) ELSE 0]
    /\ UNCHANGED <<lflag, mu, lbuf, out, exited, outsideLog>>

\* an Output that does not take the lock again after runtime.Caller
RelockMissing(g) ==
    /\ ~exited
    /\ lcall[g].pc = "relock"
    /\ lcall' = [lcall EXCEPT ![g].pc = "reset"]
    /\ UNCHANGED <<lflag, mu, lbuf, out, exited, outsideLog>>

\* l.mu.Lock() after runtime.Caller
Relock(g) ==
    /\ ~exited
    /\ lcall[g].pc = "relock"
    /\ mu = 0
    /\ mu' = g
    /\ lcall' = [lcall EXCEPT ![g].pc = "reset"]
    /\ UNCHANGED <<lflag, lbuf, out, exited, outsideLog>>

\* l.buf = l.buf[:0]
ResetBuf(g) ==
    /\ ~exited
    /\ lcall[g].pc = "reset"
    /\ lbuf' = <<>>
    /\ lcall' = [lcall EXCEPT ![g].pc = "header"]
    /\ UNCHANGED <<lflag, mu, out, exited, outsideLog>>

\* l.formatHeader(&l.buf, now, file, line, level)
FormatHeader(g) ==
    /\ ~exited
    /\ lcall[g].pc = "header"
    /\ lbuf' = lbuf \o formatHeader(lflag, lcall[g].file, Level(g))
    /\ lcall' = [lcall EXCEPT ![g].pc = "text"]
    /\ UNCHANGED <<lflag, mu, out, exited, outsideLog>>

\* l.buf = append(l.buf, s...), and a newline when s does not end in one
AppendText(g) ==
    /\ ~exited
    /\ lcall[g].pc = "text"
    /\ lbuf' = lbuf \o Text(g)
                \o (IF Text(g) = <<>> \/ Text(g)[Len(Text(g))] # Tok("\n", 0)
                    THEN <<Tok("\n", 0)>> ELSE <<>>)
    /\ lcall' = [lcall EXCEPT ![g].pc = "write"]
    /\ UNCHANGED <<lflag, mu, out, exited, outsideLog>>

\* _, err := l.out.Write(l.buf); return err; the deferred Unlock runs
WriteOut(g) ==
    /\ ~exited
    /\ lcall[g].pc = "write"
    /\ out' = Append(out, lbuf)
    /\ mu' = 0
    /\ \E e \in {"nil", "writeErr"} :
            lcall' = [lcall EXCEPT ![g].pc = "after", ![g].wrote = TRUE,
                                   ![g].ret = e]
    /\ UNCHANGED <<lflag, lbuf, exited, outsideLog>>

\* Fatal, Fatalf, Fatalln: os.Exit(1) after Output
LogExit(g) ==
    /\ ~exited
    /\ lcall[g].pc = "after"
    /\ lcall[g].kind = "Fatal"
    /\ exited' = TRUE
    /\ lcall' = [lcall EXCEPT ![g].pc = "exited"]
    /\ UNCHANGED <<lflag, mu, lbuf, out, outsideLog>>

\* Panic, Panicf, Panicln: panic(s) after Output
LogPanic(g) ==
    /\ ~exited
    /\ lcall[g].pc = "after"
    /\ lcall[g].kind = "Panic"
    /\ lcall' = [lcall EXCEPT ![g].pc = "panicked"]
    /\ UNCHANGED <<lflag, mu, lbuf, out, exited, outsideLog>>

\* the other calls return
LogDone(g) ==
    /\ ~exited
    /\ lcall[g].pc = "after"
    /\ lcall[g].kind \notin {"Fatal", "Panic"}
    /\ lcall' = [lcall EXCEPT ![g].pc = "done"]
    /\ UNCHANGED <<lflag, mu, lbuf, out, exited, outsideLog>>

LogNext ==
    \E g \in LogProcs :
        \/ LogLock(g)
        \/ FilterDrop(g)
        \/ FilterUnlock(g)
        \/ FilterPass(g)
        \/ Caller(g)
        \/ Relock(g)
        \/ ResetBuf(g)
        \/ FormatHeader(g)
        \/ AppendText(g)
        \/ WriteOut(g)
        \/ LogExit(g)
        \/ LogPanic(g)
        \/ LogDone(g)

\* concurrent use of one Logger
LogSpec == LogInit /\ [][LogNext]_vars

(* ------------------------ the channel benchmark ------------------------- *)

outsideChan == <<firstVars, other, logVars>>

\* var ch = make(chan string): no buffer
chCap == 0

\* a len that counts the senders waiting on the channel
LenChWaiting == Cardinality({i \in 1..NProd : prod[i] = "send"})

\* len(ch): the number of buffered elements, never more than the capacity
LenCh == Min(chCap, Cardinality({i \in 1..NProd : prod[i] = "send"}))

BenchInit ==
    /\ pc = "Idle"
    /\ data = <<>>
    /\ conn = "none"
    /\ err = "nil"
    /\ msgArray = <<>>
    /\ wire = <<>>
    /\ deferred = FALSE
    /\ buf = <<>>
    /\ res = NoRes
    /\ retErr = "nil"
    /\ steps = <<>>
    /\ resp = <<>>
    /\ peerSent = 0
    /\ peer = "open"
    /\ cfgFile = "good"
    /\ mainPc = "start"
    /\ acPc = "none"
    /\ jsonErr = "nil"
    /\ chCount = 0
    /\ mainRes = NoRes
    /\ printed = <<>>
    /\ other = NoCall
    /\ NoLogging
    /\ NoBench

\* Producer: go testFunction(i); after the last one Producer returns
Spawn ==
    /\ cmPc = "Producer"
    /\ spawned < NProd
    /\ prod' = [prod EXCEPT ![spawned + 1] = "send"]
    /\ spawned' = spawned + 1
    /\ cmPc' = IF spawned + 1 = NProd THEN "Consumer" ELSE "Producer"
    /\ UNCHANGED <<consPc, consStr, sampPc, sampVal, size, shown, samples,
                   outsideChan>>

\* Consumer: go func() { for { str := <- ch ... } }()
StartConsumer ==
    /\ cmPc = "Consumer"
    /\ consPc' = "recv"
    /\ cmPc' = "GetChanSize"
    /\ UNCHANGED <<prod, consStr, sampPc, sampVal, spawned, size, shown,
                   samples, outsideChan>>

\* GetChanSize: go func() { for { chSize <- len(ch) ... } }()
StartSampler ==
    /\ cmPc = "GetChanSize"
    /\ sampPc' = "eval"
    /\ cmPc' = "recvSize"
    /\ UNCHANGED <<prod, consPc, consStr, sampVal, spawned, size, shown,
                   samples, outsideChan>>

\* ch <- "this is number:"+strconv.Itoa(num) meets str := <- ch
Handoff(i) ==
    /\ prod[i] = "send"
    /\ consPc = "recv"
    /\ consStr' = i
    /\ consPc' = "print"
    /\ prod' = [prod EXCEPT ![i] = "sleep"]
    /\ UNCHANGED <<sampPc, sampVal, cmPc, spawned, size, shown, samples,
                   outsideChan>>

\* time.Sleep(100) is over; testFunction loops
ProdWake(i) ==
    /\ prod[i] = "sleep"
    /\ prod' = [prod EXCEPT ![i] = "send"]
    /\ UNCHANGED <<consPc, consStr, sampPc, sampVal, cmPc, spawned, size,
                   shown, samples, outsideChan>>

\* fmt.Println("Get string for chan:",str); the consumer loops
ConsPrint ==
    /\ consPc = "print"
    /\ consPc' = "recv"
    /\ UNCHANGED <<prod, consStr, sampPc, sampVal, cmPc, spawned, size,
                   shown, samples, outsideChan>>

\* the operand of chSize <- len(ch) is evaluated
SampleEval ==
    /\ sampPc = "eval"
    /\ sampVal' = LenCh
    /\ sampPc' = "send"
    /\ UNCHANGED <<prod, consPc, consStr, cmPc, spawned, size, shown,
                   samples, outsideChan>>

\* chSize <- len(ch) meets size := <- chSize in PrintChanSize
SizeHandoff ==
    /\ sampPc = "send"
    /\ cmPc = "recvSize"
    /\ samples < MaxSamples
    /\ size' = sampVal
    /\ samples' = samples + 1
    /\ sampPc' = "sleep"
    /\ cmPc' = "print"
    /\ UNCHANGED <<prod, consPc, consStr, sampVal, spawned, shown,
                   outsideChan>>

\* time.Sleep(10000) is over; the sampler loops
SampleWake ==
    /\ sampPc = "sleep"
    /\ sampPc' = "eval"
    /\ UNCHANGED <<prod, consPc, consStr, sampVal, cmPc, spawned, size,
                   shown, samples, outsideChan>>

\* fmt.Println("Channel size is:",size)
PrintSize ==
    /\ cmPc = "print"
    /\ shown' = size
    /\ cmPc' = "sleep"
    /\ UNCHANGED <<prod, consPc, consStr, sampPc, sampVal, spawned, size,
                   samples, outsideChan>>

\* a loop that receives a fresh size before each print
PrintWakeRecv ==
    /\ cmPc = "sleep"
    /\ cmPc' = "recvSize"
    /\ UNCHANGED <<prod, consPc, consStr, sampPc, sampVal, spawned, size,
                   shown, samples, outsideChan>>

\* time.Sleep(10000) is over; PrintChanSize loops to the print
PrintWake ==
    /\ cmPc = "sleep"
    /\ cmPc' = "print"
    /\ UNCHANGED <<prod, consPc, consStr, sampPc, sampVal, spawned, size,
                   shown, samples, outsideChan>>

BenchMain == Spawn \/ StartConsumer \/ StartSampler \/ PrintSize \/ PrintWake

Sampler == SampleEval \/ SampleWake

BenchNext ==
    \/ BenchMain
    \/ Sampler
    \/ SizeHandoff
    \/ ConsPrint
    \/ \E i \in 1..NProd : Handoff(i)
    \/ \E i \in 1..NProd : ProdWake(i)

BenchSpec == BenchInit /\ [][BenchNext]_vars

\* every goroutine that can run is scheduled, and a send and a receive
\* that wait for each other meet
BenchLiveSpec ==
    /\ BenchInit /\ [][BenchNext]_vars
    /\ WF_vars(BenchMain)
    /\ WF_vars(Sampler)
    /\ WF_vars(SizeHandoff)
    /\ WF_vars(ConsPrint)
    /\ WF_vars(\E i \in 1..NProd : Handoff(i))
    /\ \A i \in 1..NProd : WF_vars(ProdWake(i))

(* ---------------------------- specification ----------------------------- *)

Call ==
    \/ ConfigOK
    \/ ConfigPanic
    \/ DialOK
    \/ DialFail
    \/ BuildFrame
    \/ WriteOK
    \/ WriteFail
    \/ RegisterDefer
    \/ CopyStart
    \/ CopyRead
    \/ CopyEOF
    \/ CopyErr
    \/ InvalidHeader
    \/ ReturnPayload
    \/ SlicePanic

Peer ==
    \/ PeerSend
    \/ PeerClose
    \/ PeerError

Next == Call \/ Peer

Spec == Init /\ [][Next]_vars

\* the goroutine running DataSender is scheduled; the peer owes nothing
LiveSpec == Init /\ [][Next]_vars /\ WF_vars(Call)

MainNext == Call \/ Peer \/ Orch

\* the whole program, from main
MainSpec == MainInit /\ [][MainNext]_vars

\* both goroutines are scheduled; the peer owes nothing
MainLiveSpec ==
    MainInit /\ [][MainNext]_vars /\ WF_vars(Call) /\ WF_vars(Orch)

TwoNext == Call \/ Peer \/ Call2 \/ Peer2

\* two DataSender calls side by side
TwoSpec == TwoInit /\ [][TwoNext]_vars

TypeOK ==
    /\ pc \in {"Idle", "Connecting", "Connected", "Writing", "Deferring",
               "Copying", "Reading", "Validating", "Returned", "Panicked"}
    /\ conn \in {"none", "open", "closed"}
    /\ peer \in {"open", "closed", "error"}
    /\ peerSent \in 0..Len(resp)
    /\ Len(buf) <= peerSent

(* ------------------------------- claims --------------------------------- *)

Ended == pc \in {"Returned", "Panicked"}

Count(s, x) == Cardinality({i \in DOMAIN s : s[i] = x})

Occurs(x) == \E i \in DOMAIN steps : steps[i] = x

\* io.Copy returned nil and the call went on to look at the response
Decoded == Ended /\ Occurs("read") /\ res.tag # "RecvFailed"

Failures == {"ConnectError", "SendFailed", "RecvFailed", "InvalidHeader"}

\* C1: a call whose dial succeeded has closed the connection exactly once
\* when it is over, on every path
C1_ClosedExactlyOnce ==
    (Ended /\ conn # "none") =>
        (conn = "closed" /\ Count(steps, "close") = 1)

\* C2: a response of fewer than 13 bytes is answered with InvalidHeader and
\* never with a fault
C2_ShortIsInvalidHeader ==
    (Decoded /\ Len(buf) < 13) =>
        (pc = "Returned" /\ res.tag = "InvalidHeader")

\* C3: a call that ends in ConnectError, SendFailed, RecvFailed or
\* InvalidHeader returns a non-nil error
C3_FailureHasError ==
    (pc = "Returned" /\ res.tag \in Failures) => retErr # "nil"

\* C4: a response of at least 13 bytes whose first 5 bytes are not the
\* magic/version is answered with InvalidHeader and none of its bytes
C4_BadMagicInvalidHeader ==
    (Decoded /\ Len(buf) >= 13 /\ SubSeq(buf, 1, 5) # <<90, 66, 88, 68, 1>>)
        => (pc = "Returned" /\ res = [tag |-> "InvalidHeader", bytes |-> <<>>])

C4_Witness ==
    /\ Decoded
    /\ buf = resp
    /\ Len(buf) > 13
    /\ SubSeq(buf, 1, 4) = <<90, 66, 88, 68>>
    /\ buf[5] # 1
    /\ res.tag = "InvalidHeader"

\* C5: a response of at least 13 bytes that starts with the magic/version
\* yields exactly response[13:], whatever its length field declares; the
\* peer's envelope followed by its close gives back the wrapped bytes
C5_PayloadIsRest ==
    (Decoded /\ Len(buf) >= 13 /\ SubSeq(buf, 1, 5) = <<90, 66, 88, 68, 1>>)
        => /\ pc = "Returned"
           /\ retErr = "nil"
           /\ res.tag = "Payload"
           /\ buf = resp
           /\ Len(res.bytes) = Len(resp) - 13
           /\ \A i \in 1..(Len(resp) - 13) : res.bytes[i] = resp[13 + i]

C5_Witness ==
    /\ Decoded
    /\ res.tag = "Payload"
    /\ Len(res.bytes) = 2
    /\ LEValue(SubSeq(resp, 6, 13)) = 1

\* C6: the frame written is 13 + len(data) bytes: the magic/version, len(data)
\* as 8 little-endian bytes, then data unchanged
C6_FrameLayout ==
    Occurs("write") =>
        /\ Len(wire) = 13 + Len(data)
        /\ SubSeq(wire, 1, 5) = <<90, 66, 88, 68, 1>>
        /\ \A i \in 6..13 : wire[i] \in 0..255
        \* len(data) < 256^3 here: the upper five bytes are zero and the
        \* lower three carry the value
        /\ \A i \in 9..13 : wire[i] = 0
        /\ LEValue(SubSeq(wire, 6, 8)) = Len(data)
        /\ \A i \in 1..Len(data) : wire[13 + i] = data[i]

C6_Witness ==
    /\ Occurs("write")
    /\ Len(data) > 256
    /\ wire[6] = Len(data) - 256
    /\ wire[7] = 1

StepKind(x) == IF x = "writeFail" THEN "write" ELSE x

\* C7: the steps of a call are dial, write, read, close in this order, each
\* at most once, write only after a successful dial, read only after a
\* successful write, from Idle to the terminal Closed state
C7_StepOrder ==
    /\ [i \in 1..Len(steps) |-> StepKind(steps[i])]
            \in Prefixes(<<"dial", "write", "read", "close">>)
    /\ pc = "Idle" => steps = <<>>
    /\ Len(steps) >= 2 => conn # "none"
    /\ Occurs("read") => Occurs("write")
    /\ Ended => conn # "open"
    /\ (Ended /\ conn # "none") => Occurs("close")

\* C8: a failed dial ends the call with ConnectError and the dial error
\* after one attempt, without write or read; no call dials more than once
C8_DialOnce ==
    /\ Count(steps, "dial") <= 1
    /\ (Occurs("dial") /\ conn = "none") =>
            /\ pc = "Returned"
            /\ res = [tag |-> "ConnectError", bytes |-> <<>>]
            /\ retErr = "dialErr"
            /\ steps = <<"dial">>
            /\ wire = <<>>
            /\ buf = <<>>

C8_Witness ==
    /\ pc = "Returned"
    /\ conn = "none"
    /\ res.tag = "ConnectError"
    /\ steps = <<"dial">>

\* C9: a failed write ends the call with SendFailed and nothing is read; a
\* read error ends it with RecvFailed and no payload; a clean end of stream
\* is no error and leads to the header check
C9_WriteAndReadFailures ==
    /\ [](Occurs("writeFail") =>
            /\ pc = "Returned"
            /\ res = [tag |-> "SendFailed", bytes |-> <<>>]
            /\ retErr = "writeErr"
            /\ ~Occurs("read")
            /\ buf = <<>>)
    /\ [][(pc = "Reading" /\ pc' # "Reading" /\ peer = "error") =>
            /\ pc' = "Returned"
            /\ res' = [tag |-> "RecvFailed", bytes |-> <<>>]
            /\ retErr' = "readErr"]_vars
    /\ [][(pc = "Reading" /\ pc' # "Reading" /\ peer = "closed") =>
            /\ pc' = "Validating"
            /\ err' = "nil"
            /\ buf' = resp
            /\ res' = [tag |-> "None", bytes |-> <<>>]]_vars

C9_Witness ==
    /\ pc = "Returned"
    /\ res.tag = "RecvFailed"
    /\ buf # <<>>
    /\ conn = "closed"

\* C10: after the write the call ends only once the peer has closed or the
\* stream has failed; when that has happened the call does end, and while
\* the peer stays open the call stays in its read
C10_ReadToClose ==
    /\ [][(Occurs("write") /\ ~Ended /\ Ended') =>
            peer \in {"closed", "error"}]_vars
    /\ [][(pc = "Reading" /\ peer = "open") => pc' = "Reading"]_vars
    /\ (pc = "Reading" /\ peer \in {"closed", "error"})
            ~> (Ended /\ conn = "closed")

C10_Witness ==
    /\ Ended
    /\ Occurs("read")
    /\ peer = "closed"
    /\ peerSent = Len(resp)
    /\ Len(resp) >= 13

\* C12: when Config() fails the run aborts, and no dial, write or read is
\* ever made in that run
C12_ConfigFailureBeforeNetwork ==
    cfgFile = "bad" =>
        /\ steps = <<>>
        /\ conn = "none"
        /\ wire = <<>>
        /\ buf = <<>>
        /\ pc \in {"Idle", "Panicked"}
        /\ mainPc \in {"start", "recv", "crashed"}
        /\ chCount = 0
        /\ printed = <<>>

C12_Witness ==
    /\ cfgFile = "bad"
    /\ pc = "Panicked"
    /\ mainPc = "crashed"
    /\ steps = <<>>

\* C13: for every outcome DataSender returns with, activeCheck sends one
\* value on ch, main receives that one value, prints it and terminates;
\* main does not terminate before, and the two do not block each other
C13_OneReport ==
    /\ [](chCount <= 1)
    /\ [](mainPc \in {"print", "done"} =>
            /\ chCount = 1
            /\ pc = "Returned"
            /\ acPc = "done"
            /\ mainRes = res)
    /\ [](printed = IF mainPc = "done" THEN <<res>> ELSE <<>>)
    /\ (pc = "Returned") ~> (mainPc = "done" /\ chCount = 1)

C13_Witness ==
    /\ mainPc = "done"
    /\ chCount = 1
    /\ res.tag = "RecvFailed"
    /\ printed = <<res>>

\* C17: when json.Marshal fails DataSender is not invoked and no frame goes
\* out, in particular none with an empty payload and declared length 0
C17_MarshalFailureStops ==
    jsonErr = "marshalErr" =>
        /\ pc = "Idle"
        /\ steps = <<>>
        /\ wire = <<>>
        /\ chCount = 0

HeaderValid(b) == Len(b) >= 5 /\ SubSeq(b, 1, 5) = <<90, 66, 88, 68, 1>>

C18_CloseErrorNotReported ==
    (pc = "Returned" /\ deferred /\ err = "closeErr") =>
        /\ retErr # "closeErr"
        /\ res.tag \in {"Payload", "InvalidHeader", "RecvFailed"}
        /\ res.tag = "RecvFailed" => retErr = "readErr"
        /\ res.tag = "InvalidHeader" => retErr = "nil"
        /\ res.tag = "Payload" =>
                /\ retErr = "nil"
                /\ HeaderValid(resp)
                /\ res.bytes = SubSeq(resp, 14, Len(resp))

C18_Witness ==
    /\ pc = "Returned"
    /\ err = "closeErr"
    /\ conn = "closed"
    /\ res.tag = "Payload"
    /\ res.bytes # <<>>
    /\ retErr = "nil"

\* the first call seen as a record
First ==
    [pc |-> pc, data |-> data, conn |-> conn, err |-> err,
     msgArray |-> msgArray, wire |-> wire, deferred |-> deferred,
     buf |-> buf, res |-> res, retErr |-> retErr, steps |-> steps,
     resp |-> resp, peerSent |-> peerSent, peer |-> peer,
     cfgFile |-> cfgFile]

\* how a call that runs alone ends, from its own configuration read, its
\* own dial and write results and its own peer
Alone(o) ==
    IF o.cfgFile = "bad"
        THEN [pc |-> "Panicked", res |-> NoRes, retErr |-> "nil"]
    ELSE IF o.conn = "none"
        THEN [pc |-> "Returned",
              res |-> [tag |-> "ConnectError", bytes |-> <<>>],
              retErr |-> "dialErr"]
    ELSE IF \E i \in DOMAIN o.steps : o.steps[i] = "writeFail"
        THEN [pc |-> "Returned",
              res |-> [tag |-> "SendFailed", bytes |-> <<>>],
              retErr |-> "writeErr"]
    ELSE IF o.peer = "error"
        THEN [pc |-> "Returned",
              res |-> [tag |-> "RecvFailed", bytes |-> <<>>],
              retErr |-> "readErr"]
    ELSE IF ~HeaderValid(o.resp)
        THEN [pc |-> "Returned",
              res |-> [tag |-> "InvalidHeader", bytes |-> <<>>],
              retErr |-> "nil"]
    ELSE IF Len(o.resp) < 13
        THEN [pc |-> "Panicked", res |-> NoRes, retErr |-> "nil"]
    ELSE [pc |-> "Returned",
          res |-> [tag |-> "Payload",
                   bytes |-> SubSeq(o.resp, 14, Len(o.resp))],
          retErr |-> "nil"]

OwnOutcome(o) ==
    /\ o.msgArray # <<>> =>
            (Len(o.msgArray) = 13 + Len(o.data)
                /\ SubSeq(o.msgArray, 14, Len(o.msgArray)) = o.data)
    /\ o.wire \in {<<>>, o.msgArray}
    /\ o.buf \in Prefixes(o.resp)
    /\ o.pc \in {"Returned", "Panicked"} =>
            [pc |-> o.pc, res |-> o.res, retErr |-> o.retErr] = Alone(o)

\* C11: under every interleaving of two concurrent calls each works on its
\* own frame, connection and buffer, and ends as it would alone
C11_CallsIndependent == OwnOutcome(First) /\ OwnOutcome(other)

C11_Witness ==
    /\ pc = "Returned"
    /\ other.pc = "Returned"
    /\ res.tag = "Payload"
    /\ other.res.tag = "InvalidHeader"
    /\ other.buf # <<>>
    /\ data # other.data

InOutput(g) == lcall[g].pc \in {"reset", "header", "text", "write"}

Finished(g) == lcall[g].pc \in {"after", "done", "panicked", "exited"}

\* the line belongs to goroutine g alone: its one message, its level tag,
\* nobody else's pieces, from the prefix to the newline
LineOf(line, g) ==
    /\ Len(line) >= 3
    /\ line[1] = <<"prefix", 0>>
    /\ line[Len(line)] = <<"\n", 0>>
    /\ \A i \in 1..Len(line) : line[i][2] \in {0, g}
    /\ Cardinality({i \in 1..Len(line) : line[i][1] = "msg"}) = 1
    /\ Cardinality({i \in 1..Len(line) : line[i][1] = "\n"}) = 1
    /\ \E i \in 1..Len(line) : line[i] = <<"msg", g>>
    /\ \A i \in 1..Len(line) :
            line[i][1] \in {" DEBUG ", " INFO ", " WARN ", " ERROR ",
                            " PANIC ", " TRACE ", " UNKNOWN "}
                => line[i][1] = LevelTag(LevelOf(lcall[g].kind))

\* C15: from the reset of l.buf to the Write at most one caller is at work,
\* holding the mutex, so that every Write carries exactly one message
C15_AtomicWrites ==
    /\ \A g, h \in LogProcs : (InOutput(g) /\ InOutput(h)) => g = h
    /\ \A g \in LogProcs : InOutput(g) => mu = g
    /\ \A i \in 1..Len(out) : \E g \in LogProcs : LineOf(out[i], g)
    /\ Len(out) = Cardinality({g \in LogProcs : lcall[g].wrote})

C15_Witness ==
    /\ Len(out) = 2
    /\ WantsFile(lflag)
    /\ lcall[1].file = 1
    /\ lcall[2].file = 2
    /\ LineOf(out[1], 2)
    /\ LineOf(out[2], 1)

\* C16: for every flag configuration a Fatal call has written its message
\* when it exits and a Panic call has written its message when it panics
C16_WrittenBeforeExit ==
    \A g \in LogProcs :
        lcall[g].pc \in {"exited", "panicked"} =>
            (lcall[g].wrote /\ \E i \in 1..Len(out) : LineOf(out[i], g))

HasBit(flag, F) == (flag \div F) % 2 = 1

OverThreshold(flag, L) ==
    \E F \in {128, 256, 512, 1024, 2048} : HasBit(flag, F) /\ L < F

\* C19: a message of level L is dropped (nothing written, nil returned)
\* exactly when some bit F of Linfo..Ltrace is set in the flag with L < F;
\* without level bits everything is written, with Ltrace only Ltrace
C19_ThresholdFilter ==
    \A g \in LogProcs :
        LET L == LevelOf(lcall[g].kind) IN
        /\ OverThreshold(lflag, L) =>
                (~lcall[g].wrote
                    /\ lcall[g].pc \in {"call", "filter", "after", "done",
                                        "panicked", "exited"})
        /\ Finished(g) =>
                /\ lcall[g].wrote <=> ~OverThreshold(lflag, L)
                /\ OverThreshold(lflag, L) => lcall[g].ret = "nil"
                /\ (lflag \div 64) % 64 = 0 => lcall[g].wrote
                /\ (HasBit(lflag, 2048) /\ lcall[g].wrote) => L = 2048

C19_Witness ==
    /\ lflag = 512 + 64
    /\ lcall[1].kind = "Error"
    /\ Finished(1) /\ lcall[1].wrote
    /\ Finished(2) /\ ~lcall[2].wrote /\ lcall[2].ret = "nil"
    /\ Len(out) = 1

\* C20: exactly one sample is handed over: PrintChanSize receives once and
\* prints that value for ever, the sampler stays blocked in its second
\* send, the value is 0, main never ends, and producers and consumer keep
\* handing messages over one at a time
C20_OneSample ==
    /\ [](samples <= 1)
    /\ [](size = IF samples = 0 THEN -1 ELSE 0)
    /\ [](shown \in {-1, size})
    /\ [](cmPc \in {"Producer", "Consumer", "GetChanSize", "recvSize",
                    "print", "sleep"})
    /\ [][\A i \in 1..NProd :
            (prod[i] = "send" /\ prod'[i] = "sleep") =>
                (consPc = "recv" /\ consPc' = "print" /\ consStr' = i)]_vars
    /\ <>(samples = 1 /\ shown = 0)
    /\ <>[](samples = 1 /\ sampPc = "send" /\ cmPc \in {"print", "sleep"})
    /\ []<><<\E i \in 1..NProd : Handoff(i)>>_vars

C20_Witness ==
    /\ samples = 1
    /\ shown = 0
    /\ sampPc = "send"
    /\ cmPc = "sleep"
    /\ consStr = NProd
====
